---- MODULE Spec2Model ----
(***************************************************************************)
(* calendupe: mirror of a source calendar into a target calendar.          *)
(*   src/gcs.py     GCSLock (conditional create / delete of a lock blob)   *)
(*   src/update.py  list_events, duplicate_events and the event transform  *)
(*   src/main.py    perform_update, perform_resubscribe, the HTTP handler  *)
(* The calendar provider, the blob store and the task queue are modelled   *)
(* as state; every request the code sends is one step.                     *)
(***************************************************************************)
EXTENDS Integers, Sequences, FiniteSets, TLC

(* ------------------------------ bounds --------------------------------- *)
\* number of edits the calendar owner makes to the source calendar
MaxEdits == 1
\* backoff budget of acquire() (max_time) in ticks of the model's clock
BackoffBudget == 1

\* the perform_update threads alive at one time; a thread that has ended
\* leaves its place to the next one the handler starts
Runs == {1, 2}
SrcIds == {"e1", "e2"}
Starts == {"t1", "t2"}

(* ----------------------------- constants ------------------------------- *)
NoVal == "absent"          \* a key a dict does not carry
NoTok == -1                \* sync_token is None / token blob not found
NoTime == "none"           \* min_end_time is None
CfgMinEndTime == "2022-01-01T00:00Z"
SourceCal == "source"
TargetCal == "target"
DEFAULT_TARGET_EVENT_NAME == "busy (personal)"
DEFAULT_TARGET_EVENT_DESCRIPTION == "created by calendupe"
CALENDUPE == "calendupe"
NoOverrides == "useDefault=False,overrides=[]"

VARIABLES
  lockBlob,     \* the lock blob exists in GCS_LOCK_BUCKET
  storedToken,  \* content of the next_sync_token blob, NoTok when absent
  minEndTime,   \* config.MIN_END_TIME, a module global of the process
  src,          \* provider: the source calendar, per event id
  srcVer,       \* provider: number of changes made to the source calendar
  tgt,          \* provider: the target calendar, events in provider order
  run,          \* per perform_update thread: position and locals
  prev,         \* how the latest duplicate_events call ended
  request,      \* the request the handler served last
  response,     \* the status it answered with (0: none yet)
  effects,      \* what serving it triggered
  channel,      \* provider: the push channel registered for CHANNEL_ID
  tasks,        \* Cloud Tasks queue: the scheduled resubscribe tasks
  client,       \* callers of the GCSLock API (lock specification)
  listing,      \* one list_events call, page by page
  inflight      \* notifications and task deliveries on their way to the handler

vars == <<lockBlob, storedToken, minEndTime, src, srcVer, tgt, run, prev,
          request, response, effects, channel, tasks, client, listing, inflight>>

(* --------------------------- src/gcs.py -------------------------------- *)
\* blob.upload_from_file(data, if_generation_match=0): the precondition holds
\* only if no generation of the blob exists
PreconditionIgnored(blob) == TRUE
PreconditionHolds(blob) == ~blob

\* backoff.on_exception(expo, PreconditionFailed, max_time=300): after a
\* failed attempt the decorator gives up once the elapsed time has reached
\* max_time, otherwise sleeps at most the remaining budget and retries
GiveUpAtOnce(elapsed) == TRUE
GiveUp(elapsed) == elapsed >= BackoffBudget

Waits(elapsed) == 1..(BackoffBudget - elapsed)

\* GCSLock.release: delete_blob; NotFound is re-raised unless allow_nonexistent
ReleaseIgnoresAllow(blob, allow_nonexistent) == ~blob
ReleaseRaises(blob, allow_nonexistent) == ~blob /\ ~allow_nonexistent

BlobAfterRelease(blob) == FALSE

(* ------------------- the calendar provider (events) -------------------- *)
SrcOrder == <<"e1", "e2">>
EndOf(start) == IF start = "t1" THEN "t1+1h" ELSE "t2+1h"

\* the event resource the provider returns for source event id
Snapshot(id) ==
  [id |-> id, status |-> src[id].status, start |-> src[id].start,
   end |-> EndOf(src[id].start), recurrence |-> src[id].recurrence]

Listed(ids) == [i \in 1..Len(ids) |-> Snapshot(ids[i])]

\* events.list(calendarId=source) without syncToken: every event that is not
\* deleted; with syncToken t: every event changed since t, deleted ones too
FullListing ==
  Listed(SelectSeq(SrcOrder, LAMBDA id: src[id].status \notin {NoVal, "cancelled"}))
ChangesSince(t) ==
  Listed(SelectSeq(SrcOrder, LAMBDA id: src[id].status # NoVal /\ src[id].mod > t))
SourceListing(tok) == IF tok = NoTok THEN FullListing ELSE ChangesSince(tok)

\* events.list(calendarId=target, privateExtendedProperty="createdBy=calendupe")
CalendupeListing == SelectSeq(tgt, LAMBDA e: e.createdBy = CALENDUPE)
\* events.list(calendarId=target, showDeleted=True,
\*             privateExtendedProperty="sourceEventId=<id>")
TargetMatches(sid) == SelectSeq(tgt, LAMBDA e: e.sourceEventId = sid)

BodyKeys == <<"status", "start", "end", "summary", "description", "reminders",
              "recurrence", "extendedProperties">>
HasKey(e, k) ==
  IF k = "extendedProperties" THEN e.createdBy # NoVal \/ e.sourceEventId # NoVal
  ELSE e[k] # NoVal
Field(e, k) ==
  IF k = "extendedProperties" THEN <<e.createdBy, e.sourceEventId>> ELSE <<e[k]>>

\* events.insert: the provider stores the body under a fresh identifier
Inserted(body) == Append(tgt, [body EXCEPT !.id = Len(tgt) + 1])
\* events.patch: the keys the body carries replace the stored ones
Merged(old, body) ==
  [k \in DOMAIN old |->
     IF k = "id" THEN old.id
     ELSE IF k \in {"createdBy", "sourceEventId"}
          THEN (IF HasKey(body, "extendedProperties") THEN body[k] ELSE old[k])
          ELSE (IF body[k] # NoVal THEN body[k] ELSE old[k])]
Patched(body) == [tgt EXCEPT ![body.id] = Merged(@, body)]
\* events.delete: the event stays, with status cancelled (visible to showDeleted)
Deleted(id) == [tgt EXCEPT ![id].status = "cancelled"]

(* --------------------------- src/update.py ----------------------------- *)
NoBody ==
  [id |-> 0, status |-> NoVal, start |-> NoVal, end |-> NoVal, summary |-> NoVal,
   description |-> NoVal, reminders |-> NoVal, recurrence |-> NoVal,
   createdBy |-> NoVal, sourceEventId |-> NoVal]

\* source_event_to_target_event
TransformAlwaysConfirmed(source_event) ==
  [id |-> 0, status |-> "confirmed",
   start |-> source_event.start, end |-> source_event.end,
   summary |-> DEFAULT_TARGET_EVENT_NAME,
   description |-> DEFAULT_TARGET_EVENT_DESCRIPTION,
   reminders |-> NoOverrides,
   recurrence |-> source_event.recurrence,
   createdBy |-> CALENDUPE, sourceEventId |-> source_event.id]
TransformNoLink(source_event) ==
  LET status == IF source_event.status = NoVal THEN "confirmed" ELSE source_event.status
      live == status # "cancelled"
  IN [id |-> 0, status |-> status,
      start |-> IF live THEN source_event.start ELSE NoVal,
      end |-> IF live THEN source_event.end ELSE NoVal,
      summary |-> IF live THEN DEFAULT_TARGET_EVENT_NAME ELSE NoVal,
      description |-> IF live THEN DEFAULT_TARGET_EVENT_DESCRIPTION ELSE NoVal,
      reminders |-> IF live THEN NoOverrides ELSE NoVal,
      recurrence |-> source_event.recurrence,
      createdBy |-> CALENDUPE, sourceEventId |-> NoVal]
source_event_to_target_event(source_event) ==
  LET status == IF source_event.status = NoVal THEN "confirmed" ELSE source_event.status
      live == status # "cancelled"
  IN [id |-> 0, status |-> status,
      start |-> IF live THEN source_event.start ELSE NoVal,
      end |-> IF live THEN source_event.end ELSE NoVal,
      summary |-> IF live THEN DEFAULT_TARGET_EVENT_NAME ELSE NoVal,
      description |-> IF live THEN DEFAULT_TARGET_EVENT_DESCRIPTION ELSE NoVal,
      reminders |-> IF live THEN NoOverrides ELSE NoVal,
      recurrence |-> source_event.recurrence,
      createdBy |-> CALENDUPE, sourceEventId |-> source_event.id]

\* duplicate_events, lines 173-177: the keys of the expected event in insertion
\* order; a key the existing event lacks raises KeyError, the first unequal
\* value ends the loop
RECURSIVE CompareFrom(_, _, _)
CompareFrom(existing, expected, i) ==
  IF i > Len(BodyKeys) THEN "match"
  ELSE LET k == BodyKeys[i]
       IN IF ~HasKey(expected, k) THEN CompareFrom(existing, expected, i + 1)
          ELSE IF ~HasKey(existing, k) THEN "keyerror"
          ELSE IF Field(existing, k) # Field(expected, k) THEN "differ"
          ELSE CompareFrom(existing, expected, i + 1)
Compare(existing, expected) == CompareFrom(existing, expected, 1)

\* delete_all_calendupe_events, line 74: which listed events are deleted
DeletesNothing(event) == FALSE
ShouldDelete(event) == event.status # "cancelled"

\* duplicate_events, lines 141-142
SameCalendarAllowed(source, target, allow_same_calendar) == FALSE
SameCalendarRefused(source, target, allow_same_calendar) ==
  source = target /\ ~allow_same_calendar

\* list_events lines 32-33: a min_end_time without tzinfo is a ValueError
NaiveMinEndTime == "2022-01-01T00:00"
TimezoneMissing(min_end_time) == min_end_time = NaiveMinEndTime

(* ------------------ src/main.py: perform_update ------------------------ *)
\* one request sent to a provider during duplicate_events
Call(op, cal, tok, tmin, eid, body) ==
  [op |-> op, cal |-> cal, tok |-> tok, tmin |-> tmin, eid |-> eid,
   sid |-> body.sourceEventId, body |-> body]

FreshRun ==
  [pc |-> "idle", elapsed |-> 0, syncTok |-> NoTok, tmin |-> NoTime,
   events |-> <<>>, idx |-> 1, nextTok |-> NoTok, dels |-> <<>>,
   gone |-> FALSE, err |-> FALSE, calls |-> <<>>,
   prevHow |-> "none", prevTok |-> NoTok,
   source |-> SourceCal, allow |-> FALSE]

\* where an exception raised inside the try block of perform_update goes:
\* the finally clause (lines 69-72) releases the lock before it propagates
ExitWithoutFinally == "failed"
ExceptionExit == "release"

\* an exception leaves duplicate_events (or the code around it) in run r
Raised(r, call) ==
  /\ run' = [run EXCEPT ![r] = [@ EXCEPT !.pc = ExceptionExit, !.err = TRUE,
                                         !.calls = Append(@, call)]]
  /\ prev' = [how |-> "raised", tok |-> NoTok]

\* lock.acquire(), one attempt: the conditional create succeeds
AcquireOk(r) ==
  /\ run[r].pc = "acquire"
  /\ PreconditionHolds(lockBlob)
  /\ lockBlob' = TRUE
  /\ run' = [run EXCEPT ![r] = [@ EXCEPT !.pc = "read", !.elapsed = 0]]
  /\ UNCHANGED <<storedToken, minEndTime, src, srcVer, tgt, prev>>
  /\ UNCHANGED <<request, response, effects, channel, tasks, client, listing, inflight>>

\* PreconditionFailed, and the decorator sleeps and retries
AcquireRetry(r) ==
  /\ run[r].pc = "acquire"
  /\ ~PreconditionHolds(lockBlob)
  /\ ~GiveUp(run[r].elapsed)
  /\ \E w \in Waits(run[r].elapsed) :
       run' = [run EXCEPT ![r].elapsed = @ + w]
  /\ UNCHANGED <<lockBlob, storedToken, minEndTime, src, srcVer, tgt, prev>>
  /\ UNCHANGED <<request, response, effects, channel, tasks, client, listing, inflight>>

\* PreconditionFailed with the budget used up: perform_update ends with it
AcquireGiveUp(r) ==
  /\ run[r].pc = "acquire"
  /\ ~PreconditionHolds(lockBlob)
  /\ GiveUp(run[r].elapsed)
  /\ run' = [run EXCEPT ![r] = FreshRun]
  /\ UNCHANGED <<lockBlob, storedToken, minEndTime, src, srcVer, tgt, prev>>
  /\ UNCHANGED <<request, response, effects, channel, tasks, client, listing, inflight>>

\* lines 61-62: get_stored_sync_token, then the assignment to config.MIN_END_TIME
ReadToken(r) ==
  /\ run[r].pc = "read"
  /\ LET sync_token == storedToken
         min_end_time == IF sync_token = NoTok THEN minEndTime ELSE NoTime
     IN /\ minEndTime' = min_end_time
        /\ run' = [run EXCEPT ![r] = [@ EXCEPT !.pc = "list", !.syncTok = sync_token,
                                               !.tmin = min_end_time,
                                               !.prevHow = prev.how,
                                               !.prevTok = prev.tok]]
  /\ UNCHANGED <<lockBlob, storedToken, src, srcVer, tgt, prev>>
  /\ UNCHANGED <<request, response, effects, channel, tasks, client, listing, inflight>>

\* gcs.read_text fails with something other than NotFound
ReadTokenFails(r) ==
  /\ run[r].pc = "read"
  /\ run' = [run EXCEPT ![r] = [@ EXCEPT !.pc = ExceptionExit, !.err = TRUE]]
  /\ UNCHANGED <<lockBlob, storedToken, minEndTime, src, srcVer, tgt, prev>>
  /\ UNCHANGED <<request, response, effects, channel, tasks, client, listing, inflight>>

\* duplicate_events line 141 and list_events line 32: the arguments of run r
\* are refused before any request is sent
Refused(r) ==
  \/ SameCalendarRefused(run[r].source, TargetCal, run[r].allow)
  \/ TimezoneMissing(run[r].tmin)

\* the position after the listing, and after each event of the loop
AfterEvent(events, idx) == IF idx > Len(events) THEN "store" ELSE "reconcile"

\* duplicate_events returns next_sync_token once the loop is over
Returned(pc, tok) ==
  IF pc = "store" THEN [how |-> "returned", tok |-> tok] ELSE prev

\* duplicate_events lines 141-146: list_events(source, sync_token, min_end_time)
ListSource(r) ==
  /\ run[r].pc = "list"
  /\ ~Refused(r)
  /\ LET events == SourceListing(run[r].syncTok)
         call == Call("list", SourceCal, run[r].syncTok, run[r].tmin, 0, NoBody)
     IN /\ run' = [run EXCEPT ![r] = [@ EXCEPT !.pc = AfterEvent(events, 1),
                                               !.events = events, !.idx = 1,
                                               !.nextTok = srcVer,
                                               !.calls = Append(@, call)]]
        /\ prev' = Returned(AfterEvent(events, 1), srcVer)
  /\ UNCHANGED <<lockBlob, storedToken, minEndTime, src, srcVer, tgt>>
  /\ UNCHANGED <<request, response, effects, channel, tasks, client, listing, inflight>>

\* lines 141-142 and list_events lines 32-33: ValueError, nothing was sent
ListSourceRefused(r) ==
  /\ run[r].pc = "list"
  /\ Refused(r)
  /\ run' = [run EXCEPT ![r] = [@ EXCEPT !.pc = ExceptionExit, !.err = TRUE]]
  /\ prev' = [how |-> "raised", tok |-> NoTok]
  /\ UNCHANGED <<lockBlob, storedToken, minEndTime, src, srcVer, tgt>>
  /\ UNCHANGED <<request, response, effects, channel, tasks, client, listing, inflight>>

\* the listing answers 410: the sync token was invalidated (lines 147-151)
ListSourceGone(r) ==
  /\ run[r].pc = "list"
  /\ ~Refused(r)
  /\ run[r].syncTok # NoTok
  /\ run' = [run EXCEPT ![r] =
       [@ EXCEPT !.pc = "resync_list", !.gone = TRUE,
                 !.calls = Append(@, Call("list", SourceCal, run[r].syncTok,
                                          run[r].tmin, 0, NoBody))]]
  /\ UNCHANGED <<lockBlob, storedToken, minEndTime, src, srcVer, tgt, prev>>
  /\ UNCHANGED <<request, response, effects, channel, tasks, client, listing, inflight>>

\* the listing fails with any other status (lines 154-155)
ListSourceFails(r) ==
  /\ run[r].pc = "list"
  /\ ~Refused(r)
  /\ Raised(r, Call("list", SourceCal, run[r].syncTok, run[r].tmin, 0, NoBody))
  /\ UNCHANGED <<lockBlob, storedToken, minEndTime, src, srcVer, tgt>>
  /\ UNCHANGED <<request, response, effects, channel, tasks, client, listing, inflight>>

\* delete_all_calendupe_events line 70: list the target's calendupe events
ResyncList(r) ==
  /\ run[r].pc = "resync_list"
  /\ run' = [run EXCEPT ![r] =
       [@ EXCEPT !.pc = "resync_delete", !.dels = CalendupeListing,
                 !.calls = Append(@, Call("list", TargetCal, NoTok, NoTime, 0, NoBody))]]
  /\ UNCHANGED <<lockBlob, storedToken, minEndTime, src, srcVer, tgt, prev>>
  /\ UNCHANGED <<request, response, effects, channel, tasks, client, listing, inflight>>

ResyncListFails(r) ==
  /\ run[r].pc = "resync_list"
  /\ Raised(r, Call("list", TargetCal, NoTok, NoTime, 0, NoBody))
  /\ UNCHANGED <<lockBlob, storedToken, minEndTime, src, srcVer, tgt>>
  /\ UNCHANGED <<request, response, effects, channel, tasks, client, listing, inflight>>

\* delete_all_calendupe_events lines 73-76, one event of the loop
ResyncDelete(r) ==
  /\ run[r].pc = "resync_delete"
  /\ run[r].dels # <<>>
  /\ LET event == Head(run[r].dels)
     IN IF ShouldDelete(event)
        THEN /\ tgt' = Deleted(event.id)
             /\ run' = [run EXCEPT ![r] =
                  [@ EXCEPT !.dels = Tail(@),
                            !.calls = Append(@, Call("delete", TargetCal, NoTok, NoTime,
                                                     event.id, NoBody))]]
        ELSE /\ tgt' = tgt
             /\ run' = [run EXCEPT ![r].dels = Tail(@)]
  /\ UNCHANGED <<lockBlob, storedToken, minEndTime, src, srcVer, prev>>
  /\ UNCHANGED <<request, response, effects, channel, tasks, client, listing, inflight>>

ResyncDeleteFails(r) ==
  /\ run[r].pc = "resync_delete"
  /\ run[r].dels # <<>>
  /\ ShouldDelete(Head(run[r].dels))
  /\ Raised(r, Call("delete", TargetCal, NoTok, NoTime, Head(run[r].dels).id, NoBody))
  /\ UNCHANGED <<lockBlob, storedToken, minEndTime, src, srcVer, tgt>>
  /\ UNCHANGED <<request, response, effects, channel, tasks, client, listing, inflight>>

\* the token the re-listing after a full resync sends (lines 152-153: none)
RelistToken(sync_token) == NoTok

\* lines 152-153: list_events(source, min_end_time=min_end_time)
Relist(r) ==
  /\ run[r].pc = "resync_delete"
  /\ run[r].dels = <<>>
  /\ LET tok == RelistToken(run[r].syncTok)
         events == SourceListing(tok)
         call == Call("list", SourceCal, tok, run[r].tmin, 0, NoBody)
     IN /\ run' = [run EXCEPT ![r] = [@ EXCEPT !.pc = AfterEvent(events, 1),
                                               !.events = events, !.idx = 1,
                                               !.nextTok = srcVer,
                                               !.calls = Append(@, call)]]
        /\ prev' = Returned(AfterEvent(events, 1), srcVer)
  /\ UNCHANGED <<lockBlob, storedToken, minEndTime, src, srcVer, tgt>>
  /\ UNCHANGED <<request, response, effects, channel, tasks, client, listing, inflight>>

RelistFails(r) ==
  /\ run[r].pc = "resync_delete"
  /\ run[r].dels = <<>>
  /\ Raised(r, Call("list", SourceCal, RelistToken(run[r].syncTok), run[r].tmin, 0, NoBody))
  /\ UNCHANGED <<lockBlob, storedToken, minEndTime, src, srcVer, tgt>>
  /\ UNCHANGED <<request, response, effects, channel, tasks, client, listing, inflight>>

\* fetch_target_event: the first match, or None (here: NoBody)
fetch_target_event(source_event_id) ==
  LET matches == TargetMatches(source_event_id)
  IN IF Len(matches) = 0 THEN NoBody ELSE matches[1]

\* the lookup request for source event sid and the event it returned
Lookup(sid, existing) ==
  [Call("lookup", TargetCal, NoTok, NoTime, existing.id, existing) EXCEPT !.sid = sid]
LookupFailed(sid) ==
  [Call("lookup", TargetCal, NoTok, NoTime, -1, NoBody) EXCEPT !.sid = sid]

\* what lines 164-183 do for one source event, given the existing target:
\* "skip", "create", "patch" or "keyerror"
PatchEvenIfEqual(expected, existing) ==
  IF existing = NoBody
  THEN (IF expected.status = "cancelled" THEN "skip" ELSE "create")
  ELSE "patch"
Decision(expected, existing) ==
  IF existing = NoBody
  THEN (IF expected.status = "cancelled" THEN "skip" ELSE "create")
  ELSE LET cmp == Compare(existing, expected)
       IN IF cmp = "keyerror" THEN "keyerror"
          ELSE IF cmp = "differ" THEN "patch" ELSE "skip"

\* line 180: the patch is addressed to the existing target's identifier
PatchBody(expected, existing) == [expected EXCEPT !.id = existing.id]

\* duplicate_events lines 160-183, one source event of the loop
Reconcile(r) ==
  /\ run[r].pc = "reconcile"
  /\ LET source_event == run[r].events[run[r].idx]
         expected == source_event_to_target_event(source_event)
         existing == fetch_target_event(source_event.id)
         what == Decision(expected, existing)
         pc == AfterEvent(run[r].events, run[r].idx + 1)
     IN CASE what = "create" ->
               /\ tgt' = Inserted(expected)
               /\ run' = [run EXCEPT ![r] =
                    [@ EXCEPT !.pc = pc, !.idx = @ + 1,
                              !.calls = @ \o <<Lookup(source_event.id, existing),
                                   Call("insert", TargetCal, NoTok, NoTime, 0, expected)>>]]
               /\ prev' = Returned(pc, run[r].nextTok)
          [] what = "patch" ->
               /\ tgt' = Patched(PatchBody(expected, existing))
               /\ run' = [run EXCEPT ![r] =
                    [@ EXCEPT !.pc = pc, !.idx = @ + 1,
                              !.calls = @ \o <<Lookup(source_event.id, existing),
                                   Call("patch", TargetCal, NoTok, NoTime,
                                        PatchBody(expected, existing).id,
                                        PatchBody(expected, existing))>>]]
               /\ prev' = Returned(pc, run[r].nextTok)
          [] what = "skip" ->
               /\ tgt' = tgt
               /\ run' = [run EXCEPT ![r] =
                    [@ EXCEPT !.pc = pc, !.idx = @ + 1,
                              !.calls = Append(@, Lookup(source_event.id, existing))]]
               /\ prev' = Returned(pc, run[r].nextTok)
          [] what = "keyerror" ->
               /\ tgt' = tgt
               /\ Raised(r, Lookup(source_event.id, existing))
  /\ UNCHANGED <<lockBlob, storedToken, minEndTime, src, srcVer>>
  /\ UNCHANGED <<request, response, effects, channel, tasks, client, listing, inflight>>

\* the lookup request of fetch_target_event fails
ReconcileLookupFails(r) ==
  /\ run[r].pc = "reconcile"
  /\ Raised(r, LookupFailed(run[r].events[run[r].idx].id))
  /\ UNCHANGED <<lockBlob, storedToken, minEndTime, src, srcVer, tgt>>
  /\ UNCHANGED <<request, response, effects, channel, tasks, client, listing, inflight>>

\* the insert or patch request fails
ReconcileWriteFails(r) ==
  /\ run[r].pc = "reconcile"
  /\ LET source_event == run[r].events[run[r].idx]
         expected == source_event_to_target_event(source_event)
         existing == fetch_target_event(source_event.id)
         what == Decision(expected, existing)
     IN /\ what \in {"create", "patch"}
        /\ run' = [run EXCEPT ![r] =
             [@ EXCEPT !.pc = ExceptionExit, !.err = TRUE,
                       !.calls = @ \o <<Lookup(source_event.id, existing),
                            IF what = "create"
                            THEN Call("insert", TargetCal, NoTok, NoTime, 0, expected)
                            ELSE Call("patch", TargetCal, NoTok, NoTime,
                                      PatchBody(expected, existing).id,
                                      PatchBody(expected, existing))>>]]
        /\ prev' = [how |-> "raised", tok |-> NoTok]
  /\ UNCHANGED <<lockBlob, storedToken, minEndTime, src, srcVer, tgt>>
  /\ UNCHANGED <<request, response, effects, channel, tasks, client, listing, inflight>>

\* line 66: store_next_sync_token(next_sync_token)
TokenReadBack(r) == run[r].syncTok
TokenToStore(r) == run[r].nextTok
StoreToken(r) ==
  /\ run[r].pc = "store"
  /\ storedToken' = TokenToStore(r)
  /\ run' = [run EXCEPT ![r].pc = "release"]
  /\ UNCHANGED <<lockBlob, minEndTime, src, srcVer, tgt, prev>>
  /\ UNCHANGED <<request, response, effects, channel, tasks, client, listing, inflight>>

StoreTokenFails(r) ==
  /\ run[r].pc = "store"
  /\ run' = [run EXCEPT ![r] = [@ EXCEPT !.pc = ExceptionExit, !.err = TRUE]]
  /\ UNCHANGED <<lockBlob, storedToken, minEndTime, src, srcVer, tgt, prev>>
  /\ UNCHANGED <<request, response, effects, channel, tasks, client, listing, inflight>>

\* lines 69-72: lock.release() in the finally clause; the thread then ends,
\* with the pending exception if there is one or release raised NotFound
Release(r) ==
  /\ run[r].pc = "release"
  /\ lockBlob' = BlobAfterRelease(lockBlob)
  /\ run' = [run EXCEPT ![r] = FreshRun]
  /\ UNCHANGED <<storedToken, minEndTime, src, srcVer, tgt, prev>>
  /\ UNCHANGED <<request, response, effects, channel, tasks, client, listing, inflight>>

(* ------------------ the owner of the source calendar ------------------- *)
Touched(id, event) ==
  /\ srcVer < MaxEdits
  /\ srcVer' = srcVer + 1
  /\ src' = [src EXCEPT ![id] = [event EXCEPT !.mod = srcVer + 1]]
  /\ UNCHANGED <<lockBlob, storedToken, minEndTime, tgt, run, prev>>
  /\ UNCHANGED <<request, response, effects, channel, tasks, client, listing, inflight>>

CreateEvent(id) ==
  /\ src[id].status = NoVal
  \* "cancelled": created and deleted again before anything lists it
  /\ \E status \in {"confirmed", "cancelled"} :
       Touched(id, [status |-> status, start |-> "t1", recurrence |-> NoVal, mod |-> 0])

CancelEvent(id) ==
  /\ src[id].status = "confirmed"
  /\ Touched(id, [src[id] EXCEPT !.status = "cancelled"])

MoveEvent(id) ==
  /\ src[id].status = "confirmed"
  /\ \E s \in Starts \ {src[id].start} : Touched(id, [src[id] EXCEPT !.start = s])

SetRecurrence(id) ==
  /\ src[id].status = "confirmed"
  /\ Touched(id, [src[id] EXCEPT
                    !.recurrence = IF @ = NoVal THEN "RRULE:FREQ=WEEKLY" ELSE NoVal])

(* ---------------- src/update.py: list_events, page by page ------------- *)
MAX_PAGES == 500
\* a response of events.list: page n carries the item n and either a
\* nextPageToken or a nextSyncToken
NoCursor == 0
Page(n, more) ==
  [items |-> <<n>>,
   nextPageToken |-> IF more THEN n + 1 ELSE NoCursor,
   nextSyncToken |-> IF more THEN NoTok ELSE n]
NoPage == [items |-> <<>>, nextPageToken |-> NoCursor, nextSyncToken |-> NoTok]
NoListing ==
  [pc |-> "idle", requests |-> 0, pageToken |-> NoCursor, response |-> NoPage,
   events |-> <<>>, total_pages |-> 0, error |-> NoVal, result |-> NoTok]

ListingStep(l) ==
  /\ listing' = l
  /\ UNCHANGED <<lockBlob, storedToken, minEndTime, src, srcVer, tgt, run, prev>>
  /\ UNCHANGED <<request, response, effects, channel, tasks, client, inflight>>

\* lines 46-48: the first request
ListFirst ==
  /\ listing.pc = "idle"
  /\ \E more \in BOOLEAN :
       ListingStep([listing EXCEPT !.pc = "paging", !.requests = 1,
                                   !.response = Page(1, more),
                                   !.events = Page(1, more).items,
                                   !.total_pages = 1])

\* line 50: the condition of the while loop
MorePages(l) == l.response.nextPageToken # NoCursor /\ l.total_pages <= MAX_PAGES

\* lines 51-54: one more page
ListNext ==
  /\ listing.pc = "paging"
  /\ MorePages(listing)
  /\ \E more \in BOOLEAN :
       LET n == listing.response.nextPageToken
       IN ListingStep([listing EXCEPT !.requests = @ + 1, !.pageToken = n,
                                      !.response = Page(n, more),
                                      !.events = @ \o Page(n, more).items,
                                      !.total_pages = @ + 1])

\* a request, the first or a later one, is answered with an error: HttpError
ListFails ==
  /\ \/ listing.pc = "idle"
     \/ listing.pc = "paging" /\ MorePages(listing)
  /\ ListingStep([listing EXCEPT !.pc = "raised", !.requests = @ + 1,
                                 !.error = "HttpError"])

\* lines 57-58: response['nextSyncToken'] of the last response; a response
\* without the key is a KeyError
ListReturn ==
  /\ listing.pc = "paging"
  /\ ~MorePages(listing)
  /\ IF listing.response.nextSyncToken = NoTok
     THEN ListingStep([listing EXCEPT !.pc = "raised", !.error = "KeyError"])
     ELSE ListingStep([listing EXCEPT !.pc = "returned",
                                      !.result = listing.response.nextSyncToken])

\* the caller has the result; the next call starts
ListEnds ==
  /\ listing.pc \in {"returned", "raised"}
  /\ ListingStep(NoListing)

(* --------------- src/main.py: the HTTP handler calendupe --------------- *)
TOKEN == "abc123"
CHANNEL_ID == "abc123"
\* MAX_CLOUD_TASK_FUTURE = timedelta(days=29, hours=23), in hours
MAX_CLOUD_TASK_FUTURE == 719
\* number of resubscribe tasks the queue holds in one behaviour
MaxTasks == 2

\* a request path is the list of its pieces between slashes: "/channel" is
\* <<"", "channel">>, "/" is <<"", "">>
RECURSIVE LStrip(_)
LStrip(p) == IF p # <<>> /\ Head(p) = "" THEN LStrip(Tail(p)) ELSE p
RECURSIVE RStrip(_)
RStrip(p) ==
  IF p # <<>> /\ p[Len(p)] = "" THEN RStrip(SubSeq(p, 1, Len(p) - 1)) ELSE p
\* request.path.strip("/").split("/"): the empty string splits into [""]
PathParts(p) == LET q == RStrip(LStrip(p)) IN IF q = <<>> THEN <<"">> ELSE q

SubscriptionPaths == { <<"", "subscription">>, <<"", "", "subscription", "">> }
OtherPaths == { <<"", "channel">>, <<"", "">>, <<"", "other">>,
                <<"", "channel", "extra">> }
\* request.json: the bodies that are not JSON and the JSON null both read as None
NoJson == [kind |-> "none", wrid |-> NoVal]
Bodies == { NoJson, [kind |-> "null", wrid |-> NoVal],
            [kind |-> "list", wrid |-> NoVal], [kind |-> "string", wrid |-> NoVal],
            [kind |-> "number", wrid |-> NoVal], [kind |-> "object", wrid |-> NoVal],
            [kind |-> "object", wrid |-> "res1"], [kind |-> "object", wrid |-> "res2"] }
States == {NoVal, "sync", "exists", "not_exists", "other"}
\* X-Goog-Channel-Expiration: absent, not a date, or a date (in hours)
NoExpiry == [kind |-> "absent", at |-> 0]
Expiries == { NoExpiry, [kind |-> "garbage", at |-> 0],
              [kind |-> "date", at |-> 24], [kind |-> "date", at |-> 800] }
HeaderTokens == {TOKEN, "wrong", NoVal}

Req(token, path, body, state, expiry, rid, now) ==
  [token |-> token, path |-> path, body |-> body, state |-> state,
   expiry |-> expiry, rid |-> rid, now |-> now]
NoRequest == Req(NoVal, <<>>, NoJson, NoVal, NoExpiry, NoVal, 0)

\* a notification of a change of the source calendar, as the provider sends it
ChangeNotifications ==
  { Req(TOKEN, <<"", "channel">>, NoJson, "exists", NoExpiry, "res1", 0) }

\* the time a request is received, in hours
Nows == {0, 100}
UnauthorizedTokens == HeaderTokens \ {TOKEN}

\* every request of the model: each body on the subscription paths; each
\* resource state, expiration and resource id on /channel; the other paths;
\* and requests of each kind without the shared secret
Requests ==
  { Req(TOKEN, p, b, NoVal, NoExpiry, NoVal, 0) :
      p \in SubscriptionPaths, b \in Bodies }
  \cup
  { Req(TOKEN, p, NoJson, "exists", NoExpiry, "res1", 0) :
      p \in OtherPaths \ {<<"", "channel">>} }
  \cup
  { Req(TOKEN, <<"", "channel">>, NoJson, st, x, "res1", 0) :
      st \in States, x \in Expiries }
  \cup
  { Req(TOKEN, <<"", "channel">>, NoJson, st, x, NoVal, 0) :
      st \in {"exists", "not_exists"}, x \in Expiries \ {[kind |-> "date", at |-> 800]} }
  \cup
  { Req(TOKEN, <<"", "channel">>, NoJson, "sync", x, "res1", now) :
      x \in Expiries, now \in Nows }
  \cup
  { Req(t, p, b, NoVal, NoExpiry, NoVal, 0) :
      t \in UnauthorizedTokens, p \in SubscriptionPaths,
      b \in {NoJson, [kind |-> "object", wrid |-> "res1"]} }
  \cup
  { Req(t, p, NoJson, st, x, "res1", 0) :
      t \in UnauthorizedTokens, p \in OtherPaths,
      st \in {"exists", "sync"}, x \in {NoExpiry, [kind |-> "date", at |-> 24]} }

\* lines 143-188 up to the work each branch starts: the status answered when
\* nothing is started, and what is started otherwise
Answer(status, start) == [status |-> status, start |-> start]
\* lines 152-186, the request being authorized
Routed(req) ==
  LET path_parts == PathParts(req.path)
  IN IF Len(path_parts) # 1 THEN Answer(404, "none")
     ELSE IF path_parts[1] = "subscription"
          THEN IF req.body.kind \in {"none", "null", "list"} THEN Answer(400, "none")
               \* 'watched_resource_id' not in request.json.keys(): a str, an
               \* int or a float has no keys(), AttributeError, answered 500
               ELSE IF req.body.kind # "object" THEN Answer(500, "none")
               ELSE IF req.body.wrid = NoVal THEN Answer(400, "none")
               ELSE Answer(202, "resubscribe")
     ELSE IF path_parts[1] = "channel"
          \* parser.parse(expiry_string) raises on a string that is no date
          THEN IF req.expiry.kind = "garbage" THEN Answer(500, "none")
               ELSE IF req.state = "sync"
                    THEN (IF req.expiry.kind = "date" THEN Answer(202, "schedule")
                          ELSE Answer(202, "none"))
               ELSE IF req.state = "not_exists" THEN Answer(202, "none")
               ELSE IF req.state = "exists" THEN Answer(202, "dispatch")
               ELSE Answer(202, "none")
     ELSE Answer(404, "none")
\* lines 143-149: the shared secret is checked first
RoutePathFirst(req) ==
  IF Routed(req).status = 404 THEN Routed(req)
  ELSE IF req.token # TOKEN THEN Answer(401, "none")
  ELSE Routed(req)
Route(req) ==
  IF req.token # TOKEN THEN Answer(401, "none") ELSE Routed(req)

Min(a, b) == IF a <= b THEN a ELSE b
\* schedule_resubscribe lines 129-133
ScheduleAtExpiration(expiration, now) == Min(expiration, now + MAX_CLOUD_TASK_FUTURE)
ScheduleUnclamped(expiration, now) == expiration - 1
ScheduleTime(expiration, now) == Min(expiration - 1, now + MAX_CLOUD_TASK_FUTURE)
\* create_resubscribe_task: the task's request
ResubscribeTask(watched_resource_id, schedule_time) ==
  [url |-> "/subscription", token |-> TOKEN, wrid |-> watched_resource_id,
   at |-> schedule_time]

\* unsubscribe: channels.stop with the configured channel id
StopCall(watched_resource_id) ==
  [op |-> "stop", id |-> CHANNEL_ID, resourceId |-> watched_resource_id,
   calendarId |-> NoVal, address |-> NoVal, token |-> NoVal, expiration |-> NoVal]
\* subscribe_calendar with ttl_seconds=None: events.watch, the body without
\* an expiration
WatchCall ==
  [op |-> "watch", id |-> CHANNEL_ID, resourceId |-> NoVal,
   calendarId |-> SourceCal, address |-> "/channel", token |-> TOKEN,
   expiration |-> NoVal]
\* perform_resubscribe lines 84-90: the subscribe follows the unsubscribe
\* whether or not the unsubscribe failed
SubscribeOnlyIfStopped(stopped) == stopped
SubscribeIssued(stopped) == TRUE

\* the lifetimes the provider gives a channel that asks for none, in hours:
\* one that leaves no time before expiration - 1h, one beyond the task horizon
ChannelTtls == {1, 721}
\* a channel just created by events.watch: its sync notification is not
\* sent yet
NewChannel(ttl) == [live |-> TRUE, expiry |-> ttl, synced |-> FALSE]
NoChannel == [live |-> FALSE, expiry |-> 0, synced |-> TRUE]

NoEffects ==
  [resubscribed |-> <<>>, scheduled |-> 0, dispatched |-> 0, raised |-> FALSE,
   calls |-> <<>>, stopped |-> FALSE, watched |-> FALSE]
IdleRuns == {r \in Runs : run[r].pc = "idle"}

\* lines 179-180: Thread(target=perform_update).start() returns at once,
\* whatever the state of the lock; the model only needs a free thread slot
DispatchWaitsForLock(idle, blob) == idle # {} /\ ~blob
Dispatchable(idle, blob) == idle # {}

\* the handler serves request req
Handler(req) ==
  LET route == Route(req)
  IN /\ request' = req
     /\ CASE route.start = "resubscribe" ->
               \* perform_resubscribe: unsubscribe (an HttpError is swallowed),
               \* then subscribe_calendar, whose error is not caught
               \E stopped \in BOOLEAN, answered \in BOOLEAN, ttl \in ChannelTtls :
                 LET issued == SubscribeIssued(stopped)
                     watched == issued /\ answered
                 IN /\ channel' = IF watched THEN NewChannel(ttl)
                                   ELSE IF stopped THEN NoChannel ELSE channel
                    /\ response' = IF issued /\ ~watched THEN 500 ELSE route.status
                    /\ effects' = [NoEffects EXCEPT
                         !.resubscribed = <<req.body.wrid>>,
                         !.raised = issued /\ ~watched,
                         !.calls = <<StopCall(req.body.wrid)>>
                                     \o (IF issued THEN <<WatchCall>> ELSE <<>>),
                         !.stopped = stopped, !.watched = watched]
                    /\ UNCHANGED <<tasks, run>>
          [] route.start = "schedule" ->
               /\ Len(tasks) < MaxTasks
               /\ tasks' = Append(tasks, ResubscribeTask(req.rid,
                                           ScheduleTime(req.expiry.at, req.now)))
               /\ response' = route.status
               /\ effects' = [NoEffects EXCEPT !.scheduled = 1]
               /\ UNCHANGED <<channel, run>>
          [] route.start = "dispatch" ->
               \* threading.Thread(target=perform_update).start()
               /\ Dispatchable(IdleRuns, lockBlob)
               /\ LET r == CHOOSE i \in IdleRuns : \A j \in IdleRuns : i <= j
                  IN run' = [run EXCEPT ![r].pc = "acquire"]
               /\ response' = route.status
               /\ effects' = [NoEffects EXCEPT !.dispatched = 1]
               /\ UNCHANGED <<channel, tasks>>
          [] OTHER ->
               /\ response' = route.status
               /\ effects' = [NoEffects EXCEPT !.raised = (route.status = 500)]
               /\ UNCHANGED <<channel, tasks, run>>
     /\ UNCHANGED <<lockBlob, storedToken, minEndTime, src, srcVer, tgt, prev, client, listing>>

(* ------- src/main.py: the subscription lifecycle around the handler ----- *)
\* times are hours from the present: a request is received at 0, and the
\* passing of an hour lowers every expiration and schedule time by one
\* nothing is on its way to the handler
NoneInFlight == [notices |-> <<>>, attempts |-> 0]
\* deliveries of one task beyond the first (at-least-once delivery)
MaxRedeliveries == 1

\* the provider answers a successful events.watch with a sync notification
\* that carries the expiration of the new channel
ProviderAnnounces ==
  /\ channel.live /\ ~channel.synced
  /\ channel' = [channel EXCEPT !.synced = TRUE]
  /\ inflight' = [inflight EXCEPT !.notices = Append(@, channel.expiry)]
  /\ UNCHANGED <<lockBlob, storedToken, minEndTime, src, srcVer, tgt, run, prev>>
  /\ UNCHANGED <<request, response, effects, tasks, client, listing>>

SyncNotification(expiration) ==
  Req(TOKEN, <<"", "channel">>, NoJson, "sync", [kind |-> "date", at |-> expiration],
      "res1", 0)

\* the sync notification reaches the handler (lines 172-175)
DeliverSync ==
  /\ inflight.notices # <<>>
  /\ Handler(SyncNotification(Head(inflight.notices)))
  /\ inflight' = [inflight EXCEPT !.notices = Tail(@)]

\* create_resubscribe_task: the request Cloud Tasks sends for a task
TaskRequest(task) ==
  Req(task.token, <<"", "subscription">>, [kind |-> "object", wrid |-> task.wrid],
      NoVal, NoExpiry, NoVal, 0)
Due == {i \in 1..Len(tasks) : tasks[i].at <= 0}
FirstDue == CHOOSE i \in Due : \A j \in Due : i <= j
\* resubscribe tasks and the notifications that will become tasks
Pending ==
  Len(tasks) + Len(inflight.notices) + (IF channel.live /\ ~channel.synced THEN 1 ELSE 0)

\* Cloud Tasks sends the request of a task whose time has come; it may send
\* it again before it takes the task off the queue
DeliverTask ==
  /\ Due # {}
  /\ \/ inflight.attempts = 0
     \/ /\ inflight.attempts <= MaxRedeliveries
        /\ Pending <= MaxTasks
  /\ Handler(TaskRequest(tasks[FirstDue]))
  /\ inflight' = [inflight EXCEPT !.attempts = @ + 1]

\* Cloud Tasks takes the delivered task off the queue
TaskDone ==
  /\ inflight.attempts > 0
  /\ tasks' = [i \in 1..(Len(tasks) - 1) |->
                 IF i < FirstDue THEN tasks[i] ELSE tasks[i + 1]]
  /\ inflight' = [inflight EXCEPT !.attempts = 0]
  /\ UNCHANGED <<lockBlob, storedToken, minEndTime, src, srcVer, tgt, run, prev>>
  /\ UNCHANGED <<request, response, effects, channel, client, listing>>

\* the times at which something happens next: a task comes due, the channel
\* expires
Horizon ==
  {tasks[i].at : i \in 1..Len(tasks)} \cup (IF channel.live THEN {channel.expiry} ELSE {})

\* time passes until the next of these; notifications and due tasks are
\* delivered before time moves on, and a channel whose expiration is reached
\* is gone
Tick ==
  /\ inflight = NoneInFlight
  /\ channel.live => channel.synced
  /\ Due = {}
  /\ Horizon # {}
  /\ LET hours == CHOOSE m \in Horizon : \A n \in Horizon : m <= n
     IN /\ tasks' = [i \in 1..Len(tasks) |-> [tasks[i] EXCEPT !.at = @ - hours]]
        /\ channel' = IF ~channel.live THEN channel
                      ELSE IF channel.expiry <= hours THEN NoChannel
                      ELSE [channel EXCEPT !.expiry = @ - hours]
  /\ UNCHANGED <<lockBlob, storedToken, minEndTime, src, srcVer, tgt, run, prev>>
  /\ UNCHANGED <<request, response, effects, client, listing, inflight>>

(* ---------------- callers of the GCSLock API (src/gcs.py) -------------- *)
Clients == {"a", "b"}
FreshClient ==
  [pc |-> "acquire", elapsed |-> 0, tries |-> 0, first |-> "none",
   blobAtAcquire |-> FALSE, afterRelease |-> FALSE,
   released |-> 0, allow |-> FALSE, before |-> FALSE, after |-> FALSE,
   raised |-> FALSE]
Releases == client["a"].released + client["b"].released

\* acquire(), an attempt whose conditional create succeeds
ClientAcquireOk(c) ==
  /\ client[c].pc = "acquire"
  /\ PreconditionHolds(lockBlob)
  /\ lockBlob' = TRUE
  /\ client' = [client EXCEPT ![c] =
       [@ EXCEPT !.pc = "held", !.tries = @ + 1,
                 !.first = IF client[c].tries = 0 THEN "ok" ELSE @,
                 !.blobAtAcquire = lockBlob, !.afterRelease = Releases > 0]]
  /\ UNCHANGED <<storedToken, minEndTime, src, srcVer, tgt, run, prev>>
  /\ UNCHANGED <<request, response, effects, channel, tasks, listing, inflight>>

\* acquire(), an attempt answered PreconditionFailed, then the backoff sleep
ClientAcquireRetry(c) ==
  /\ client[c].pc = "acquire"
  /\ ~PreconditionHolds(lockBlob)
  /\ ~GiveUp(client[c].elapsed)
  /\ \E w \in Waits(client[c].elapsed) :
       client' = [client EXCEPT ![c] =
         [@ EXCEPT !.elapsed = @ + w, !.tries = @ + 1,
                   !.first = IF client[c].tries = 0 THEN "failed" ELSE @]]
  /\ UNCHANGED lockBlob
  /\ UNCHANGED <<storedToken, minEndTime, src, srcVer, tgt, run, prev>>
  /\ UNCHANGED <<request, response, effects, channel, tasks, listing, inflight>>

\* acquire(), an attempt answered PreconditionFailed with the budget used up
ClientAcquireGiveUp(c) ==
  /\ client[c].pc = "acquire"
  /\ ~PreconditionHolds(lockBlob)
  /\ GiveUp(client[c].elapsed)
  /\ client' = [client EXCEPT ![c] =
       [@ EXCEPT !.pc = "contention", !.tries = @ + 1,
                 !.first = IF client[c].tries = 0 THEN "failed" ELSE @]]
  /\ UNCHANGED lockBlob
  /\ UNCHANGED <<storedToken, minEndTime, src, srcVer, tgt, run, prev>>
  /\ UNCHANGED <<request, response, effects, channel, tasks, listing, inflight>>

\* release(allow_nonexistent), by a caller whose acquire() succeeded; a caller
\* may call it a second time
ClientRelease(c, allow_nonexistent) ==
  /\ client[c].pc \in {"held", "released"}
  /\ lockBlob' = BlobAfterRelease(lockBlob)
  /\ client' = [client EXCEPT ![c] =
       [@ EXCEPT !.pc = IF @ = "held" THEN "released" ELSE "closed",
                 !.released = @ + 1, !.allow = allow_nonexistent,
                 !.before = lockBlob, !.after = BlobAfterRelease(lockBlob),
                 !.raised = ReleaseRaises(lockBlob, allow_nonexistent)]]
  /\ UNCHANGED <<storedToken, minEndTime, src, srcVer, tgt, run, prev>>
  /\ UNCHANGED <<request, response, effects, channel, tasks, listing, inflight>>

(* --------------------------- specifications ---------------------------- *)
NoSource == [status |-> NoVal, start |-> "t1", recurrence |-> NoVal, mod |-> 0]
FirstSource == [status |-> "confirmed", start |-> "t1", recurrence |-> NoVal, mod |-> 0]
\* an event of the target calendar's owner, not made by calendupe
OwnEvent ==
  [NoBody EXCEPT !.id = 1, !.status = "confirmed", !.start = "t1", !.end = "t1+1h",
                 !.summary = "lunch"]

InitStores ==
  /\ lockBlob = FALSE
  /\ storedToken = NoTok
  /\ minEndTime = CfgMinEndTime
  /\ srcVer = 0
  /\ tgt = <<OwnEvent>>
  /\ run = [r \in Runs |-> FreshRun]
  /\ prev = [how |-> "none", tok |-> NoTok]
  /\ request = NoRequest
  /\ response = 0
  /\ effects = NoEffects
  /\ channel = NewChannel(721)
  /\ tasks = <<>>
  /\ client = [c \in Clients |-> FreshClient]
  /\ listing = NoListing
  /\ inflight = NoneInFlight

Init ==
  /\ InitStores
  \* the source calendar holds e1; it may hold e2 as well
  /\ src \in {f \in [SrcIds -> {NoSource, FirstSource}] : f["e1"] = FirstSource}

\* the deployed function: change notifications start reconciliation threads
\* while the owner edits the source calendar
Next ==
  \/ \E req \in ChangeNotifications : Handler(req) /\ UNCHANGED inflight
  \/ \E r \in Runs :
       \/ AcquireOk(r)
       \/ AcquireRetry(r)
       \/ AcquireGiveUp(r)
       \/ ReadToken(r)
       \/ ReadTokenFails(r)
       \/ ListSource(r)
       \/ ListSourceGone(r)
       \/ ListSourceFails(r)
       \/ ResyncList(r)
       \/ ResyncListFails(r)
       \/ ResyncDelete(r)
       \/ ResyncDeleteFails(r)
       \/ Relist(r)
       \/ RelistFails(r)
       \/ Reconcile(r)
       \/ ReconcileLookupFails(r)
       \/ ReconcileWriteFails(r)
       \/ StoreToken(r)
       \/ StoreTokenFails(r)
       \/ Release(r)
  \/ \E id \in SrcIds :
       \/ CreateEvent(id)
       \/ CancelEvent(id)
       \/ MoveEvent(id)
       \/ SetRecurrence(id)

Spec == Init /\ [][Next]_vars

\* duplicate_events called directly, with arguments of every kind
DuplicateEvents(r, source, sync_token, min_end_time, allow_same_calendar) ==
  /\ run[r].pc = "idle"
  /\ run' = [run EXCEPT ![r] =
       [FreshRun EXCEPT !.pc = "list", !.source = source, !.syncTok = sync_token,
                        !.tmin = min_end_time, !.allow = allow_same_calendar,
                        !.prevHow = prev.how, !.prevTok = prev.tok]]
  /\ UNCHANGED <<lockBlob, storedToken, minEndTime, src, srcVer, tgt, prev>>
  /\ UNCHANGED <<request, response, effects, channel, tasks, client, listing, inflight>>

\* the call has returned its token or raised
DuplicateEventsEnds(r) ==
  /\ run[r].pc \in {"store", ExceptionExit}
  /\ run' = [run EXCEPT ![r] = FreshRun]
  /\ UNCHANGED <<lockBlob, storedToken, minEndTime, src, srcVer, tgt, prev>>
  /\ UNCHANGED <<request, response, effects, channel, tasks, client, listing, inflight>>

\* the calendars a call may name: the model lists the source calendar only,
\* so the target is named as source only without the override flag
CalendarArgs ==
  {<<SourceCal, FALSE>>, <<SourceCal, TRUE>>, <<TargetCal, FALSE>>}
MinEndTimes == {NoTime, CfgMinEndTime, NaiveMinEndTime}

NextArgs ==
  \E r \in {1} :
    \/ \E cal \in CalendarArgs, sync_token \in {NoTok, prev.tok},
          min_end_time \in MinEndTimes :
         DuplicateEvents(r, cal[1], sync_token, min_end_time, cal[2])
    \/ ListSourceRefused(r)
    \/ ListSource(r)
    \/ ListSourceGone(r)
    \/ ListSourceFails(r)
    \/ ResyncList(r)
    \/ ResyncListFails(r)
    \/ ResyncDelete(r)
    \/ ResyncDeleteFails(r)
    \/ Relist(r)
    \/ RelistFails(r)
    \/ Reconcile(r)
    \/ ReconcileLookupFails(r)
    \/ ReconcileWriteFails(r)
    \/ DuplicateEventsEnds(r)

SpecArgs == Init /\ [][NextArgs]_vars

\* list_events against a provider that pages as it likes
NextPaging ==
  \/ ListFirst
  \/ ListNext
  \/ ListFails
  \/ ListReturn
  \/ ListEnds

SpecPaging == Init /\ [][NextPaging]_vars

\* the handler alone, under every request of the model; the threads it starts
\* are followed in Spec
InitHandler ==
  /\ InitStores
  /\ src = [id \in SrcIds |-> NoSource]

NextHandler == \E req \in Requests : Handler(req) /\ UNCHANGED inflight

SpecHandler == InitHandler /\ [][NextHandler]_vars

\* the deployed function with its channel and its task queue: the channel
\* was subscribed once from outside
NextLifecycle ==
  \/ ProviderAnnounces
  \/ DeliverSync
  \/ DeliverTask
  \/ TaskDone
  \/ Tick

\* the provider sends each sync notification, Cloud Tasks delivers each task
\* and takes it off the queue, and time passes
SpecLifecycle ==
  /\ InitHandler
  /\ [][NextLifecycle]_vars
  /\ WF_vars(ProviderAnnounces)
  /\ WF_vars(DeliverSync)
  /\ WF_vars(DeliverTask)
  /\ WF_vars(TaskDone)
  /\ WF_vars(Tick)

\* two callers of one GCSLock
InitLock ==
  /\ InitStores
  /\ src = [id \in SrcIds |-> NoSource]

NextLock ==
  \E c \in Clients :
    \/ ClientAcquireOk(c)
    \/ ClientAcquireRetry(c)
    \/ ClientAcquireGiveUp(c)
    \/ \E allow_nonexistent \in BOOLEAN : ClientRelease(c, allow_nonexistent)

SpecLock == InitLock /\ [][NextLock]_vars

(* ------------------------------ properties ----------------------------- *)
\* run r is between a successful acquire() and the release() of the finally
\* clause (src/main.py lines 50-72)
InCS(r) ==
  run[r].pc \in {"read", "list", "resync_list", "resync_delete", "reconcile",
                 "store", "release"}

\* C1: at most one synchronization run is past acquire() and before
\* release() at any time, however many notifications started runs
C1_MutualExclusion == Cardinality({r \in Runs : InCS(r)}) <= 1

\* a run works under the lock while another one has been refused and backs off
C1_Contended ==
  \E r1, r2 \in Runs :
    /\ InCS(r1) /\ run[r1].pc = "reconcile"
    /\ run[r2].pc = "acquire" /\ run[r2].elapsed > 0

\* caller c's acquire() has returned normally
Acquired(c) == client[c].pc \in {"held", "released", "closed"}

\* C2 as stated: once both callers have made their first conditional create,
\* exactly one of them succeeded on it; the other succeeds only on a retry
\* made after a release(), and gives up only with the budget exhausted
C2_ExactlyOneFirstCreate ==
  /\ (\A c \in Clients : client[c].first # "none") =>
       Cardinality({c \in Clients : client[c].first = "ok"}) = 1
  /\ \A c \in Clients :
       /\ Acquired(c) /\ client[c].first = "failed" => client[c].afterRelease
       /\ client[c].pc = "contention" => client[c].elapsed >= BackoffBudget

\* C2: a conditional create succeeds only while the blob is absent, so the
\* first create to arrive succeeds, and both callers succeed on their first
\* create only if one of them made it after the other's release(); a caller
\* whose first create failed succeeds only on a retry made after a release();
\* without a release at most one caller acquires; a caller retries until the
\* backoff budget is used up, then fails with the contention error
C2_ConditionalCreate ==
  /\ (\E c \in Clients : client[c].first # "none") =>
       \E c \in Clients : client[c].first = "ok"
  /\ (\A c \in Clients : client[c].first = "ok") =>
       \E c \in Clients : Acquired(c) /\ client[c].afterRelease
  /\ (\A c \in Clients : Acquired(c)) => Releases > 0
  /\ \A c \in Clients :
       /\ Acquired(c) => ~client[c].blobAtAcquire
       /\ Acquired(c) /\ client[c].first = "failed" =>
            client[c].afterRelease /\ client[c].tries > 1
       /\ client[c].elapsed <= BackoffBudget
       /\ client[c].pc = "contention" =>
            client[c].elapsed >= BackoffBudget /\ client[c].first = "failed"
       /\ client[c].pc = "acquire" /\ lockBlob /\ client[c].elapsed >= BackoffBudget =>
            ENABLED ClientAcquireGiveUp(c) /\ ~ENABLED ClientAcquireRetry(c)

\* a caller refused on its first create has acquired on a retry after the
\* holder's release()
C2_AcquiredOnRetry ==
  \E c \in Clients :
    client[c].pc = "held" /\ client[c].first = "failed" /\ client[c].afterRelease

\* C3: the lock blob exists only while a run is between acquire() and
\* release(): a run that has ended, normally or by an exception raised while
\* reading the token, duplicating or storing the token, has left no blob
\* (always), a run ends only by the release() step, which leaves no blob, or
\* by giving up in acquire(), which does not touch the blob (every step)
C3_LockReleased ==
  /\ [](lockBlob => \E r \in Runs : InCS(r))
  /\ [][\A r \in Runs :
          run[r].pc # "idle" /\ run'[r].pc = "idle" =>
            IF run[r].pc = "acquire" THEN lockBlob' = lockBlob
            ELSE run[r].pc = "release" /\ ~lockBlob']_vars

\* duplicate_events has raised, the run has ended and the lock is free
C3_ReleasedAfterFailure ==
  /\ prev.how = "raised"
  /\ \A r \in Runs : run[r].pc = "idle"
  /\ ~lockBlob

\* C4: release(allow_nonexistent) raises exactly when the blob is absent and
\* allow_nonexistent is false; when the blob exists it deletes it, when the
\* blob is absent and allow_nonexistent is true it changes nothing; the blob
\* is absent after every call
C4_Release ==
  \A c \in Clients :
    client[c].released > 0 =>
      /\ client[c].raised <=> (~client[c].before /\ ~client[c].allow)
      /\ ~client[c].after

\* release() of an absent blob without allow_nonexistent has raised
C4_MissingBlobRaised ==
  \E c \in Clients :
    /\ client[c].released > 0 /\ ~client[c].before /\ ~client[c].allow
    /\ client[c].raised /\ ~lockBlob

\* the positions in run r's request log of the requests op made for source
\* event sid
Ops(r, op, sid) ==
  {i \in DOMAIN run[r].calls : run[r].calls[i].op = op /\ run[r].calls[i].sid = sid}

\* the positions of the source listings in run r's request log
SourceLists(r) ==
  {i \in DOMAIN run[r].calls :
     run[r].calls[i].op = "list" /\ run[r].calls[i].cal = SourceCal}

\* C5: in a run whose token-bearing listing was answered 410, no later
\* request carries a token, so the re-listing is a full one; no deletion
\* follows the re-listing; and at the re-listing every target event tagged
\* calendupe is cancelled
C5_FullResync ==
  \A r \in Runs :
    run[r].gone =>
      LET calls == run[r].calls
      IN /\ calls[1].op = "list" /\ calls[1].tok # NoTok
         /\ \A i \in 2..Len(calls) : calls[i].tok = NoTok
         /\ \A i \in SourceLists(r) \ {1} : \A j \in DOMAIN calls :
              calls[j].op = "delete" => 1 < j /\ j < i
         /\ Len(calls) \in SourceLists(r) \ {1} /\ ~run[r].err =>
              \A t \in DOMAIN tgt :
                tgt[t].createdBy = CALENDUPE => tgt[t].status = "cancelled"

\* a run answered 410 has deleted two target events and has just re-listed
C5_Resynced ==
  \E r \in Runs :
    /\ run[r].gone /\ ~run[r].err
    /\ Len(run[r].calls) \in SourceLists(r) \ {1}
    /\ Cardinality({i \in DOMAIN run[r].calls : run[r].calls[i].op = "delete"}) = 2

\* run r has finished the loop body for the k-th listed source event
Processed(r, k) == k \in 1..Len(run[r].events) /\ k < run[r].idx

\* the lookup made for the k-th listed source event found no target event
NoTarget(r, k) ==
  \A i \in Ops(r, "lookup", run[r].events[k].id) : run[r].calls[i].eid = 0

\* the lookup made for the k-th listed source event found a target event that
\* was not cancelled
LiveTarget(r, k) ==
  \A i \in Ops(r, "lookup", run[r].events[k].id) :
    run[r].calls[i].eid > 0 /\ run[r].calls[i].body.status # "cancelled"

\* C6: for a listed source event whose lookup found no linked target event,
\* a run makes exactly one insert when the event is not cancelled, carrying
\* createdBy = calendupe and sourceEventId = the event's id, and makes no
\* insert, patch or delete when the event is cancelled; a run never inserts
\* twice for one source event
C6_CreateOrSkip ==
  \A r \in Runs : \A k \in 1..Len(run[r].events) :
    LET E == run[r].events[k]
        calls == run[r].calls
        inserts == Ops(r, "insert", E.id)
        patches == Ops(r, "patch", E.id)
        deletes == {i \in DOMAIN calls :
                      calls[i].op = "delete" /\ tgt[calls[i].eid].sourceEventId = E.id}
    IN /\ Cardinality(inserts) <= 1
       /\ Processed(r, k) /\ NoTarget(r, k) =>
            IF E.status # "cancelled"
            THEN /\ Cardinality(inserts) = 1
                 /\ \A i \in inserts :
                      /\ calls[i].cal = TargetCal
                      /\ calls[i].body.createdBy = CALENDUPE
                      /\ calls[i].body.sourceEventId = E.id
                      /\ calls[i - 1].op = "lookup" /\ calls[i - 1].sid = E.id
                 /\ patches = {}
            ELSE inserts = {} /\ patches = {} /\ deletes = {}

\* a run has skipped a cancelled source event that has no target event, and
\* the target calendar holds an event that an insert created
C6_SkippedCancelled ==
  /\ \E r \in Runs : \E k \in 1..Len(run[r].events) :
       /\ Processed(r, k) /\ NoTarget(r, k)
       /\ run[r].events[k].status = "cancelled"
  /\ \E t \in DOMAIN tgt :
       tgt[t].createdBy = CALENDUPE /\ tgt[t].sourceEventId \in SrcIds

\* the inserts and patches of run r
Writes(r) ==
  {i \in DOMAIN run[r].calls : run[r].calls[i].op \in {"insert", "patch"}}

\* run r listed the source right after a duplicate_events call that returned
\* normally, with that call's token or with none, and the source calendar did
\* not change between the two listings
SecondRun(r) ==
  /\ run[r].prevHow = "returned"
  /\ run[r].syncTok \in {NoTok, run[r].prevTok}
  /\ SourceLists(r) # {}
  /\ run[r].nextTok = run[r].prevTok

\* C7 as stated: the second of two such calls makes no insert and no patch
C7_SecondRunWritesNothing ==
  \A r \in Runs : SecondRun(r) => Writes(r) = {}

\* C7: the second of two such calls makes no insert and no patch, unless its
\* listing was answered 410 (the targets are then deleted and patched back)
C7_SecondRunWritesNothingUnlessGone ==
  \A r \in Runs : SecondRun(r) /\ ~run[r].gone => Writes(r) = {}

\* a second call has compared every listed event with its target and is done
C7_SecondRunDone ==
  \E r \in Runs :
    /\ SecondRun(r) /\ ~run[r].gone
    /\ run[r].pc = "store" /\ Len(run[r].events) = 2

\* C8: for a cancelled source event whose lookup found a linked target event
\* that was not cancelled, a run makes exactly one patch, addressed to that
\* target event's id and setting status cancelled, and no insert or delete
C8_CancelByPatch ==
  \A r \in Runs : \A k \in 1..Len(run[r].events) :
    LET E == run[r].events[k]
        calls == run[r].calls
        patches == Ops(r, "patch", E.id)
    IN Processed(r, k) /\ E.status = "cancelled" /\ LiveTarget(r, k) =>
         /\ Cardinality(patches) = 1
         /\ \A i \in patches :
              /\ calls[i].cal = TargetCal
              /\ calls[i - 1].op = "lookup" /\ calls[i].eid = calls[i - 1].eid
              /\ calls[i].body.id = calls[i].eid
              /\ calls[i].body.status = "cancelled"
              /\ tgt[calls[i].eid].sourceEventId = E.id
              /\ \A j \in DOMAIN calls : j > i =>
                   ~(calls[j].op = "delete" /\ calls[j].eid = calls[i].eid)
         /\ Ops(r, "insert", E.id) = {}

\* a run has cancelled the target event of a cancelled source event
C8_TargetCancelled ==
  \E r \in Runs : \E k \in 1..Len(run[r].events) :
    /\ Processed(r, k) /\ run[r].events[k].status = "cancelled" /\ LiveTarget(r, k)
    /\ \E i \in Ops(r, "patch", run[r].events[k].id) :
         tgt[run[r].calls[i].eid].status = "cancelled"

\* C9: a request whose X-Goog-Channel-Token is absent or wrong is answered
\* 401 whatever its path, body and other headers, and starts no resubscribe,
\* schedules no renewal task and starts no run (every step)
C9_Unauthorized ==
  [][request'.token # TOKEN =>
       /\ response' = 401
       /\ effects' = NoEffects
       /\ UNCHANGED <<channel, tasks, run, lockBlob, storedToken, tgt>>]_vars

\* a request without the token, to a path that is not found, was answered 401
C9_RejectedBeforePath ==
  /\ request.token = NoVal
  /\ Len(PathParts(request.path)) # 1
  /\ response = 401 /\ effects = NoEffects

\* request req is authorized and addressed to /subscription
ToSubscription(req) ==
  req.token = TOKEN /\ PathParts(req.path) = <<"subscription">>

\* C10: an authorized request to /subscription whose body is not a JSON
\* object holding watched_resource_id (no JSON, an array, a string, a number,
\* an object without the key) is answered 400 and starts no resubscribe;
\* otherwise resubscribe is called once with the value and, once it has
\* returned, the answer is 202
C10_SubscriptionBody ==
  ToSubscription(request) =>
    IF request.body.kind = "object" /\ request.body.wrid # NoVal
    THEN /\ effects.resubscribed = <<request.body.wrid>>
         /\ ~effects.raised => response = 202
    ELSE response = 400 /\ effects.resubscribed = <<>>

\* request req is authorized and addressed to /channel
ToChannel(req) ==
  req.token = TOKEN /\ PathParts(req.path) = <<"channel">>

\* C11: an authorized request to /channel, whatever its resource id and its
\* expiration header (a date, absent, or not a date), is answered 202;
\* state exists starts exactly one run and schedules nothing, state sync
\* with an expiration schedules exactly one task and starts no run, every
\* other case starts and schedules nothing
C11_ChannelStates ==
  ToChannel(request) =>
    /\ response = 202
    /\ effects.resubscribed = <<>>
    /\ effects.dispatched = IF request.state = "exists" THEN 1 ELSE 0
    /\ effects.scheduled =
         IF request.state = "sync" /\ request.expiry.kind = "date" THEN 1 ELSE 0

\* C12: an exists notification is answered while the lock is held as well
\* as while it is free (always); the answer 202 is given at the step that
\* starts the run, before the run has made any attempt to acquire, and no
\* step of a run, whether it retries, gives up, fails or completes, changes
\* the answer (every step)
C12_ResponseNotBlocked ==
  /\ [](IdleRuns # {} => \A req \in ChangeNotifications : ENABLED Handler(req))
  /\ [][IF \E r \in Runs : run[r].pc = "idle" /\ run'[r].pc = "acquire"
        THEN /\ response' = 202
             /\ \A r \in Runs : run'[r] # run[r] =>
                  run'[r] = [FreshRun EXCEPT !.pc = "acquire"]
        ELSE response' = response]_vars

\* the latest notification was answered 202 and the run it started is
\* backing off while another run holds the lock
C12_AnsweredWhileRetrying ==
  /\ response = 202 /\ effects.dispatched = 1 /\ lockBlob
  /\ \E r \in Runs : run[r].pc = "acquire" /\ run[r].elapsed > 0
  /\ \A r \in Runs : run[r].pc # "idle"

\* C13: a call of duplicate_events that names the target calendar as source
\* without the override flag, or passes a min_end_time without timezone,
\* sends no request at all: it is still before its first listing or has
\* raised, and its request log is empty
C13_RefusedBeforeRequests ==
  \A r \in Runs :
    /\ run[r].pc # "idle"
    /\ \/ run[r].source = TargetCal /\ ~run[r].allow
       \/ run[r].tmin = NaiveMinEndTime
    => /\ run[r].calls = <<>>
       /\ run[r].pc \in {"list", ExceptionExit}
       /\ run[r].pc = ExceptionExit => run[r].err

\* a call naming one calendar as source and target has raised, having sent
\* nothing
C13_SameCalendarRaised ==
  \E r \in Runs :
    /\ run[r].source = TargetCal /\ ~run[r].allow /\ run[r].tmin = CfgMinEndTime
    /\ run[r].err /\ run[r].calls = <<>>

\* C14: one list_events call sends at most MAX_PAGES (500) list requests,
\* the first one included, however the provider pages
C14_AtMostMaxPagesRequests == listing.requests <= MAX_PAGES

\* C15: when list_events stops paging without a provider error, because a
\* page had no cursor or because the page cap was reached, it returns the
\* items of all pages in page order with a sync token: it never raises
\* without an error of the provider
C15_StopReturnsPair ==
  /\ listing.pc = "raised" => listing.error = "HttpError"
  /\ listing.pc = "returned" =>
       /\ listing.events = [i \in 1..listing.requests |-> i]
       /\ listing.result # NoTok

\* a field the transform produced is missing from the existing target or
\* has another value there
Differs(existing, expected) ==
  \E i \in 1..Len(BodyKeys) :
    /\ HasKey(expected, BodyKeys[i])
    /\ \/ ~HasKey(existing, BodyKeys[i])
       \/ Field(existing, BodyKeys[i]) # Field(expected, BodyKeys[i])

\* C16: for a source event whose linked target exists, the run sends one
\* patch, addressed to the existing target's id and carrying the transformed
\* values, exactly if a transformed field differs from the existing target's
\* (a field the target lacks counts as different); it sends nothing when all
\* fields are equal, and the comparison never ends the run
C16_PatchIffDiffers ==
  \A r \in Runs :
    \A i \in 1..Len(run[r].calls) :
      LET call == run[r].calls[i]
      IN call.op = "lookup" /\ call.eid > 0 =>
           \A j \in 1..Len(run[r].events) :
             run[r].events[j].id = call.sid =>
               LET expected == source_event_to_target_event(run[r].events[j])
               IN IF Differs(call.body, expected)
                  THEN /\ i < Len(run[r].calls)
                       /\ run[r].calls[i + 1].op = "patch"
                       /\ run[r].calls[i + 1].eid = call.body.id
                       /\ run[r].calls[i + 1].body = PatchBody(expected, call.body)
                  ELSE i < Len(run[r].calls) => run[r].calls[i + 1].op = "lookup"

\* the request served by the step is an authorized sync notification that
\* carries an expiration date
SyncServed ==
  /\ ToChannel(request')
  /\ request'.state = "sync"
  /\ request'.expiry.kind = "date"

ResubscribeServed == effects.resubscribed # <<>>

\* C18: perform_resubscribe sends the unsubscribe for the configured channel
\* id and the given resource id first, and then exactly one subscribe for the
\* source calendar with the configured channel id and no expiration; a
\* failure of the unsubscribe is swallowed, a failure of the subscribe
\* propagates (the request is answered 500)
C18_UnsubscribeThenSubscribe ==
  ResubscribeServed =>
    /\ Len(effects.calls) = 2
    /\ effects.calls[1].op = "stop"
    /\ effects.calls[1].id = CHANNEL_ID
    /\ effects.calls[1].resourceId = request.body.wrid
    /\ effects.calls[2].op = "watch"
    /\ effects.calls[2].calendarId = SourceCal
    /\ effects.calls[2].id = CHANNEL_ID
    /\ effects.calls[2].expiration = NoVal
    /\ effects.raised <=> ~effects.watched
    /\ response = IF effects.watched THEN 202 ELSE 500

\* the unsubscribe failed and the subscribe went through
C18_SubscribedAfterFailedStop ==
  /\ ResubscribeServed
  /\ ~effects.stopped /\ effects.watched
  /\ response = 202 /\ channel.live

\* the request served last was a resubscription whose subscribe succeeded
Renewed == ResubscribeServed /\ effects.watched
\* the request served last was a sync notification, and the task it
\* scheduled comes due before the channel expires
Rearmed ==
  /\ effects.scheduled = 1
  /\ tasks # <<>>
  /\ channel.live
  /\ tasks[Len(tasks)].at < channel.expiry

Quiescent ==
  /\ inflight = NoneInFlight
  /\ channel.live => channel.synced

\* C20: delivering a resubscription task twice leaves what delivering it
\* once leaves: one live channel and one pending renewal task; deliveries
\* never raise the number of pending renewal tasks above one
C20_OnePendingTask ==
  Quiescent => Len(tasks) <= 1

\* run r has read the stored token and not yet written it
AfterRead(r) ==
  \/ run[r].pc \in {"list", "resync_list", "resync_delete", "reconcile", "store"}
  \/ run[r].pc = "release" /\ run[r].err /\ run[r].calls # <<>>

\* C21: the stored token changes only in the store step of a run that holds
\* the lock and whose duplicate_events has returned, and it becomes the
\* token that call returned; from a run's read to its write or its failure
\* the stored token is the one the run read, so a failed run leaves it
\* unchanged and no other run's read or write falls in between; a run that
\* has stored holds the token its call returned
C21_TokenWriteDiscipline ==
  /\ [](\A r \in Runs :
         /\ AfterRead(r) =>
              /\ storedToken = run[r].syncTok
              /\ lockBlob
              /\ \A q \in Runs \ {r} : ~InCS(q)
         /\ run[r].pc = "release" /\ ~run[r].err =>
              /\ storedToken = run[r].nextTok
              /\ run[r].nextTok # NoTok)
  /\ [][storedToken' # storedToken =>
         \E r \in Runs :
           /\ run[r].pc = "store" /\ run'[r].pc = "release"
           /\ lockBlob /\ ~run[r].err
           /\ prev = [how |-> "returned", tok |-> run[r].nextTok]
           /\ storedToken' = run[r].nextTok]_vars

\* a run that read a stored token has failed after its listing, and the
\* stored token is still the one it read
C21_FailedRunKeptToken ==
  \E r \in Runs :
    /\ run[r].pc = "release" /\ run[r].err /\ run[r].calls # <<>>
    /\ run[r].syncTok # NoTok
    /\ storedToken = run[r].syncTok

\* C22: every listing of the source calendar sent without a sync token
\* carries the configured minimum end time, and every listing sent with a
\* sync token carries none
C22_MinEndTimeOnFullListings ==
  \A r \in Runs :
    \A i \in SourceLists(r) :
      run[r].calls[i].tmin =
        IF run[r].calls[i].tok = NoTok THEN CfgMinEndTime ELSE NoTime


=============================================================================
